---- MODULE Spec2Model ----
(***************************************************************************)
(* Build-time data loaders of The Groove Library.                          *)
(*                                                                         *)
(*   src/_data/eastonChopUp.js           playlist loader                   *)
(*   src/_data/theJapanGrooveLibrary.js  playlist loader + mergeTracklists *)
(*   src/_data/mixcloud.js               profile + cloudcasts loader       *)
(*                                                                         *)
(* One invocation of one loader runs against a server.  The server is a    *)
(* table from page URL to page body; on every request the network answers  *)
(* with that body, with an HTTP error status, with an unparseable body or  *)
(* with a network error.                                                   *)
(***************************************************************************)
EXTENDS Integers, Sequences, FiniteSets, TLC

VARIABLES
    loader,            \* which data file is invoked
    server,            \* URL -> page body served for that URL
    tracklistsFile,    \* content of tracklists.json on disk
    manualTracklists,  \* theJapanGrooveLibrary.js: the loaded table
    pc,                \* position of the playlist loader
    url,               \* fetchPlaylistCloudcasts: url
    pageCount,         \* fetchPlaylistCloudcasts: pageCount
    cloudcasts,        \* fetchPlaylistCloudcasts: cloudcasts
    i,                 \* fetchWithRetry: i
    delay,             \* fetchWithRetry: delay
    timer,             \* pending setTimeout of the playlist loader (0: none)
    data,              \* value fetchWithRetry returned to the while loop
    error,             \* error in flight (thrown, not yet caught)
    outcome,           \* promise of the default export
    attempts,          \* history: requests issued for the current url
    fails,             \* history: failed attempts (429 included) for the current url
    seen,              \* history: responses received for the current url
    fetched,           \* history: urls whose page was appended, in order
    mpc,               \* mixcloud.js: position of fetchUserProfile / fetchAllCloudcasts
    retryCount,        \* mixcloud.js: fetchWithRetry's retryCount, per caller
    mtimer,            \* mixcloud.js: pending setTimeout, per caller (0: none)
    nextUrl,           \* mixcloud.js: fetchAllCloudcasts: nextUrl
    mattempts,         \* history: requests issued for the current url, per caller
    mpages,            \* history: pages fetchAllCloudcasts has appended
    mcap,              \* pages the model lets fetchAllCloudcasts request
    inflight,          \* history: fetches issued and not yet answered
    suggested,         \* history: retry delay the pending rate-limit response suggested
    running,           \* the invocation whose locals the variables above hold (0: the only one)
    parked,            \* locals of the other invocation while it waits on the event loop
    overlapped,        \* history: both invocations were under way at the same time
    ready,             \* lazy-player.js: DOMContentLoaded has been handled
    content,           \* wrapper -> its child nodes (markup, click listener of the overlay)
    classes,           \* wrapper -> its classList
    activeIframes,     \* lazy-player.js: activeIframes (wrapper -> originalHTML)
    iframe,            \* wrapper -> state of the iframe it holds ("none": no iframe)
    clicked,           \* history: wrappers whose play overlay has been clicked
    loads,             \* history: wrapper -> times its player has been loaded
    listening,         \* image-fallback.js: the error listeners are attached
    covers,            \* the images that have a .mix-player__cover ancestor
    marked,            \* image -> dataset.fallback === 'true'
    coverClass,        \* image -> its cover carries mix-player__cover--fallback
    hidden,            \* image -> style.display === 'none'
    errors,            \* history: image -> error events fired on it, and heard
    spc,               \* create-playlist-page.js: position of main
    playlistUrl,       \* main: playlistUrl (the kind of answer given)
    response,          \* history: the answer to the metadata request
    playlistData,      \* main: playlistData
    pageSlug,          \* main: pageSlug
    pageFiles,         \* src/<pageSlug>.njk: slug -> content written
    dataFiles,         \* src/_data/<dataVarName>.js: name -> content written
    navFile,           \* src/_data/navigation.json
    written,           \* history: the outputs this run has written, in order
    exitCode,          \* exit code of the script (-1: still running)
    runs,              \* history: times the script has been started
    arg,               \* argument of the helper function under study
    result             \* its result ("none" before the call)

\* the variables only mixcloud.js touches
mvars == <<mpc, retryCount, mtimer, nextUrl, mattempts, mpages>>

\* the variables only a second, concurrent invocation touches
conc == <<running, parked, overlapped>>

\* the variables only lazy-player.js touches
pvars == <<ready, content, classes, activeIframes, iframe, clicked, loads>>

\* the variables only image-fallback.js touches
ivars == <<listening, covers, marked, coverClass, hidden, errors>>

\* the variables only create-playlist-page.js touches
svars == <<spc, playlistUrl, response, playlistData, pageSlug, pageFiles, dataFiles,
           navFile, written, exitCode, runs>>

\* the variables of a call of a helper function
fvars == <<arg, result>>

\* the variables the data files and lazy-player.js leave alone
xvars == <<ivars, svars, fvars>>

----------------------------------------------------------------------------
(* Bounds of the model *)

\* number of distinct page URLs the server knows
NumUrls == 2

\* mixcloud.js has no page ceiling: pages the model lets fetchAllCloudcasts request
MaxMixPages == 3

----------------------------------------------------------------------------
(* Values *)

Urls == 1..NumUrls

\* null / undefined next-page pointer
NoUrl == 0

\* the first page URL: `${API_BASE_URL}/${username}/playlists/${playlistSlug}/cloudcasts/`
StartUrl == 1

Chr == <<"a", "b", "c", "d", "e", "f", "g", "h">>

\* a missing property
Undefined == <<"undefined">>

\* the value `null`
Null == -1

\* a start_time property that is missing
NoStartTime == -2

\* sections the API itself lists for a cloudcast
ApiSections ==
    <<[section_type |-> "track", position |-> 1, artist |-> "api",
       name |-> "api", start_time |-> Null]>>

\* a cloudcast with key "/<c>/"; the odd ones come with sections of their own
Item(n) ==
    [id |-> n, key |-> <<"/", Chr[n], "/">>,
     sections |-> IF n % 2 = 1 THEN ApiSections ELSE <<>>]

\* a cloudcast without a key field
KeylessItem(n) == [id |-> n, key |-> Undefined, sections |-> <<>>]

\* a parsed page body: { data: [...], paging: { next } }
Page(hasData, items, next) ==
    [undefined |-> FALSE, hasData |-> hasData, data |-> items, next |-> next]

\* a fetchWithRetry that ends with `return {}`
EmptyBody ==
    [undefined |-> FALSE, hasData |-> FALSE, data |-> <<>>, next |-> 0]

\* what fetchWithRetry yields when its for loop runs out
UndefinedData ==
    [undefined |-> TRUE, hasData |-> FALSE, data |-> <<>>, next |-> NoUrl]

\* item lists of the pages of a server, by kind of collection
PageItems(kind, u) ==
    CASE kind = "disjoint" -> <<Item(2 * u - 1), Item(2 * u)>>
      [] kind = "overlap"  -> <<Item(u), Item(u + 1)>>
      [] kind = "sparse"   -> IF u = 1 THEN <<>> ELSE <<Item(u)>>
      [] kind = "keyless"  -> <<KeylessItem(u)>>

ServerKinds == {"disjoint", "overlap", "sparse", "keyless"}

\* A server whose pages 1..len follow one another and whose last page points
\* to `back` (NoUrl: end of pagination; a URL: a cyclic next pointer).
\* In a "sparse" collection page 1 has no data field at all.
MkServer(kind, len, back) ==
    [u \in Urls |->
        Page(~(kind = "sparse" /\ u = 1),
             PageItems(kind, u),
             IF u < len THEN u + 1 ELSE IF u = len THEN back ELSE NoUrl)]

Servers ==
    {MkServer(kind, len, back) :
        kind \in ServerKinds, len \in Urls, back \in 0..NumUrls}

\* manual tracklist tables (slug -> tracks); the empty table is <<>>-like
Track(p, st) ==
    [position |-> p, artist |-> "artist", track |-> "title", start_time |-> st]

EmptyTable == [s \in {} |-> <<>>]

\* the first track starts at second 0, the third has no start_time
TableA ==
    [s \in {<<Chr[1]>>} |->
        <<Track(1, 0), Track(2, 245), Track(3, NoStartTime)>>]

\* tracklists.json: absent, or holding a table
TracklistFiles == {"missing", "tableA"}

----------------------------------------------------------------------------
(* Program constants *)

\* fetchWithRetry(url, retries = 3, delay = 1000)
Retries == 3

InitialDelay == 1000

\* while (url && pageCount < 100)
PageLimit == 100

\* setTimeout(resolve, 200) between pages
InterPageDelay == 200

----------------------------------------------------------------------------
(* Responses and errors *)

\* retry delays (seconds) a rate-limit response suggests (0: none):
\* the Retry-After header, errorData.error.retry_after
RetryAfters == {0, 7}

\* HTTP statuses the server answers with
Statuses == {200, 429, 500, 404}

\* what one fetch(url) can end in: a response with a status (a 2xx body may
\* fail to parse as JSON), or a network error (fetch rejects)
Responses ==
    {[net |-> FALSE, status |-> s, parses |-> TRUE, retry_after |-> 0] :
        s \in Statuses}
        \cup {[net |-> FALSE, status |-> 429, parses |-> TRUE, retry_after |-> ra] :
                 ra \in RetryAfters}
        \cup {[net |-> FALSE, status |-> 200, parses |-> FALSE, retry_after |-> 0],
              [net |-> TRUE, status |-> 0, parses |-> FALSE, retry_after |-> 0]}

\* response.ok
Ok(status) == status >= 200 /\ status <= 299

NoError == [message |-> "", status |-> 0]

\* new Error(`HTTP ${response.status}: ${response.statusText}`)
HttpError(status) == [message |-> "HTTP", status |-> status]

\* fetch() rejected
NetworkError == [message |-> "fetch failed", status |-> 0]

\* response.json() rejected
SyntaxError == [message |-> "Unexpected token in JSON", status |-> 0]

\* property read on undefined
TypeError == [message |-> "Cannot read properties of undefined", status |-> 0]

\* summary of the responses received for one url
Label(r) ==
    IF r.net THEN "network"
    ELSE IF r.status = 200 THEN (IF r.parses THEN "ok" ELSE "badbody")
    ELSE IF r.status = 429 THEN "s429"
    ELSE IF r.status = 500 THEN "s500" ELSE "s404"

See(old, r) == IF old = "none" \/ old = Label(r) THEN Label(r) ELSE "mixed"

----------------------------------------------------------------------------
(* Results of the default export *)

Pending == [state |-> "pending", cloudcasts |-> <<>>, count |-> 0,
            hasError |-> FALSE, error |-> "", status |-> 0, profile |-> "none"]

\* return { playlistSlug, cloudcasts, count: cloudcasts.length, fetchedAt }
SuccessResult(cc) ==
    [state |-> "fulfilled", cloudcasts |-> cc, count |-> Len(cc),
     hasError |-> FALSE, error |-> "", status |-> 0, profile |-> "none"]

\* a catch clause that returns what had been accumulated
FailureResultPartial(cc, err) ==
    [state |-> "fulfilled", cloudcasts |-> cc, count |-> Len(cc),
     hasError |-> TRUE, error |-> err.message, status |-> err.status,
     profile |-> "none"]

\* return { playlistSlug, cloudcasts: [], count: 0, error: error.message, fetchedAt }
FailureResult(cc, err) ==
    [state |-> "fulfilled", cloudcasts |-> <<>>, count |-> 0,
     hasError |-> TRUE, error |-> err.message, status |-> err.status,
     profile |-> "none"]

----------------------------------------------------------------------------
(* theJapanGrooveLibrary.js: mergeTracklists *)

\* key.replace(/^\//, '').replace(/\/$/, '')
StripSlashes(key) ==
    LET a == IF Len(key) > 0 /\ key[1] = "/" THEN Tail(key) ELSE key
    IN  IF Len(a) > 0 /\ a[Len(a)] = "/" THEN SubSeq(a, 1, Len(a) - 1) ELSE a

\* track.start_time || null: null for a missing start_time and for 0
OrNull(st) == IF st = NoStartTime \/ st = 0 THEN Null ELSE st

\* manualTracklists[slug].map(track => ({ section_type: 'track', ... }))
Sections(tracks) ==
    [k \in 1..Len(tracks) |->
        [section_type |-> "track",
         position     |-> tracks[k].position,
         artist       |-> tracks[k].artist,
         name         |-> tracks[k].track,
         start_time   |-> OrNull(tracks[k].start_time)]]

\* cloudcast.key.replace(...) on a cloudcast without key throws a TypeError
MergeThrows(cc) == \E k \in 1..Len(cc) : cc[k].key = Undefined

\* cloudcasts.filter(...).map(...): only the cloudcasts with a manual tracklist
mergeMatched(cc, table) ==
    LET hit == SelectSeq(cc, LAMBDA c : StripSlashes(c.key) \in DOMAIN table)
    IN  [k \in 1..Len(hit) |->
            [hit[k] EXCEPT !.sections = Sections(table[StripSlashes(hit[k].key)])]]

mergeTracklists(cc, table) ==
    [k \in 1..Len(cc) |->
        IF StripSlashes(cc[k].key) \in DOMAIN table
        THEN [cc[k] EXCEPT !.sections = Sections(table[StripSlashes(cc[k].key)])]
        ELSE cc[k]]

----------------------------------------------------------------------------
(* Playlist loader: eastonChopUp.js, theJapanGrooveLibrary.js *)

Playlist == loader \in {"easton", "japan"}

\* while (url && pageCount <= 100)
LoopContinuesInclusive(u, n) == u # NoUrl /\ n <= PageLimit

\* while (pageCount < 100)
LoopContinuesIgnoresUrl(u, n) == n < PageLimit

\* while (url && pageCount < 100)
LoopContinues(u, n) == u # NoUrl /\ n < PageLimit

\* cloudcasts.unshift(...data.data)
PushFront(acc, d) == IF d.hasData THEN d.data \o acc ELSE acc

\* the page pushed once more
PushTwice(acc, d) == IF d.hasData THEN acc \o d.data \o d.data ELSE acc

\* the push left out
PushNothing(acc, d) == acc

\* if (data.data) cloudcasts.push(...data.data)
Push(acc, d) == IF d.hasData THEN acc \o d.data ELSE acc

\* if (i === retries) throw error
LastAttemptOffByOne(k) == k = Retries

\* if (i >= retries - 2) throw error
LastAttemptEarly(k) == k >= Retries - 2

\* if (i === retries - 1) throw error
LastAttempt(k) == k = Retries - 1

\* a default export whose catch clause rethrows: its promise rejects
CaughtRethrows(cc, err) ==
    [state |-> "rejected", cloudcasts |-> <<>>, count |-> 0,
     hasError |-> FALSE, error |-> err.message, status |-> err.status,
     profile |-> "none"]

\* what the default export does with an error thrown in its try block
Caught(cc, err) == FailureResult(cc, err)

\* The default export is called: (theJapanGrooveLibrary.js) the manual
\* tracklists are read, then fetchPlaylistCloudcasts starts.
Invoke ==
    /\ Playlist /\ pc = "idle"
    /\ manualTracklists' =
          IF loader = "japan" /\ tracklistsFile = "tableA" THEN TableA ELSE EmptyTable
    /\ cloudcasts' = <<>>
    /\ url' = StartUrl
    /\ pageCount' = 0
    /\ pc' = "while"
    /\ UNCHANGED <<xvars, pvars, conc, mvars, mcap, inflight, suggested, loader, server,
                   tracklistsFile, i, delay, timer, data, error, outcome,
                   attempts, fails, seen, fetched>>

\* while condition true: fetchWithRetry(url) is called
WhileEnter ==
    /\ Playlist /\ pc = "while"
    /\ LoopContinues(url, pageCount)
    /\ i' = 0
    /\ delay' = InitialDelay
    /\ attempts' = 0
    /\ fails' = 0
    /\ seen' = "none"
    /\ pc' = "for"
    /\ UNCHANGED <<xvars, pvars, conc, mvars, mcap, inflight, suggested, loader, server,
                   tracklistsFile, manualTracklists, url, pageCount,
                   cloudcasts, timer, data, error, outcome, fetched>>

\* while condition false: fetchPlaylistCloudcasts returns cloudcasts
WhileExit ==
    /\ Playlist /\ pc = "while"
    /\ ~LoopContinues(url, pageCount)
    /\ pc' = "returned"
    /\ UNCHANGED <<xvars, pvars, conc, mvars, mcap, inflight, suggested, loader, server,
                   tracklistsFile, manualTracklists, url, pageCount,
                   cloudcasts, i, delay, timer, data, error, outcome,
                   attempts, fails, seen, fetched>>

\* for (let i = 0; i < retries; i++): fetch(url) is issued
Request ==
    /\ Playlist /\ pc = "for"
    /\ i < Retries
    /\ attempts' = attempts + 1
    /\ pc' = "awaiting"
    /\ inflight' = inflight + 1
    /\ UNCHANGED <<xvars, pvars, conc, mvars, mcap, suggested, loader, server,
                   tracklistsFile, manualTracklists, url, pageCount,
                   cloudcasts, i, delay, timer, data, error, outcome, fails,
                   seen, fetched>>

\* the for loop ends without return or throw: fetchWithRetry yields undefined
LoopRunsOut ==
    /\ Playlist /\ pc = "for"
    /\ ~(i < Retries)
    /\ data' = UndefinedData
    /\ pc' = "page"
    /\ UNCHANGED <<xvars, pvars, conc, mvars, mcap, inflight, suggested, loader, server,
                   tracklistsFile, manualTracklists, url, pageCount,
                   cloudcasts, i, delay, timer, error, outcome, attempts,
                   fails, seen, fetched>>

\* response.status === 429: wait `delay`, then continue
Respond429 ==
    /\ Playlist /\ pc = "awaiting"
    /\ \E r \in Responses :
         /\ ~r.net /\ r.status = 429
         /\ seen' = See(seen, r)
         /\ suggested' = [suggested EXCEPT !["playlist"] = r.retry_after]
    /\ fails' = fails + 1
    /\ timer' = delay
    /\ pc' = "backoff"
    /\ inflight' = inflight - 1
    /\ UNCHANGED <<xvars, pvars, conc, mvars, mcap, loader, server, tracklistsFile,
                   manualTracklists, url, pageCount, cloudcasts, i, delay,
                   data, error, outcome, attempts, fetched>>

\* the error the try block of fetchWithRetry throws for response r
Thrown(r) ==
    IF r.net THEN NetworkError
    ELSE IF ~Ok(r.status) THEN HttpError(r.status)
    ELSE SyntaxError

\* fetch rejects, the status is not ok, or the body does not parse: the catch
\* clause rethrows on the last attempt and waits `delay` otherwise
RespondFailure ==
    /\ Playlist /\ pc = "awaiting"
    /\ \E r \in Responses :
         /\ r.net \/ (r.status # 429 /\ (~Ok(r.status) \/ ~r.parses))
         /\ seen' = See(seen, r)
         /\ IF LastAttempt(i)
            THEN /\ error' = Thrown(r)
                 /\ pc' = "thrown"
                 /\ timer' = timer
            ELSE /\ timer' = delay
                 /\ pc' = "backoff"
                 /\ error' = error
    /\ fails' = fails + 1
    /\ inflight' = inflight - 1
    /\ UNCHANGED <<xvars, pvars, conc, mvars, mcap, suggested, loader, server,
                   tracklistsFile, manualTracklists, url, pageCount,
                   cloudcasts, i, delay, data, outcome, attempts, fetched>>

\* 2xx with a parseable body: return await response.json()
RespondOk ==
    /\ Playlist /\ pc = "awaiting"
    /\ \E r \in Responses :
         /\ ~r.net /\ Ok(r.status) /\ r.parses
         /\ seen' = See(seen, r)
    /\ data' = server[url]
    /\ pc' = "page"
    /\ inflight' = inflight - 1
    /\ UNCHANGED <<xvars, pvars, conc, mvars, mcap, suggested, loader, server,
                   tracklistsFile, manualTracklists, url, pageCount,
                   cloudcasts, i, delay, timer, error, outcome, attempts,
                   fails, fetched>>

\* the delay left as it is
NextDelaySame(d) == d

\* delay *= 2
NextDelay(d) == d * 2

\* the retry timer fires: delay *= 2, next iteration of the for loop
BackoffElapsed ==
    /\ Playlist /\ pc = "backoff"
    /\ timer' = 0
    /\ delay' = NextDelay(delay)
    /\ i' = i + 1
    /\ pc' = "for"
    /\ suggested' = [suggested EXCEPT !["playlist"] = 0]
    /\ UNCHANGED <<xvars, pvars, conc, mvars, mcap, inflight, loader, server,
                   tracklistsFile, manualTracklists, url, pageCount,
                   cloudcasts, data, error, outcome, attempts, fails, seen,
                   fetched>>

\* the wait made after every page
PausesAlways(next) == TRUE

\* if (url) await new Promise(resolve => setTimeout(resolve, 200))
Pauses(next) == next # NoUrl

\* body of the while loop after fetchWithRetry returned `data`
AppendPage ==
    /\ Playlist /\ pc = "page"
    /\ IF data.undefined
       THEN \* data.data on undefined
            /\ error' = TypeError
            /\ pc' = "thrown"
            /\ UNCHANGED <<xvars, pvars, conc, cloudcasts, url, pageCount, timer, fetched>>
       ELSE /\ cloudcasts' = Push(cloudcasts, data)
            /\ url' = data.next
            /\ pageCount' = pageCount + 1
            /\ fetched' = Append(fetched, url)
            /\ IF Pauses(data.next)
               THEN timer' = InterPageDelay /\ pc' = "pause"
               ELSE timer' = timer /\ pc' = "while"
            /\ error' = error
    /\ UNCHANGED <<xvars, pvars, conc, mvars, mcap, inflight, suggested, loader, server,
                   tracklistsFile, manualTracklists, i, delay, data, outcome,
                   attempts, fails, seen>>

\* the inter-page timer fires
PauseElapsed ==
    /\ Playlist /\ pc = "pause"
    /\ timer' = 0
    /\ pc' = "while"
    /\ UNCHANGED <<xvars, pvars, conc, mvars, mcap, inflight, suggested, loader, server,
                   tracklistsFile, manualTracklists, url, pageCount,
                   cloudcasts, i, delay, data, error, outcome, attempts,
                   fails, seen, fetched>>

\* try block of the default export after fetchPlaylistCloudcasts returned
Return ==
    /\ Playlist /\ pc = "returned"
    /\ IF loader = "japan" /\ MergeThrows(cloudcasts)
       THEN /\ error' = TypeError
            /\ pc' = "thrown"
            /\ outcome' = outcome
       ELSE /\ outcome' = SuccessResult(
                  IF loader = "japan"
                  THEN mergeTracklists(cloudcasts, manualTracklists)
                  ELSE cloudcasts)
            /\ pc' = "done"
            /\ error' = error
    /\ UNCHANGED <<xvars, pvars, conc, mvars, mcap, inflight, suggested, loader, server,
                   tracklistsFile, manualTracklists, url, pageCount,
                   cloudcasts, i, delay, timer, data, attempts, fails, seen,
                   fetched>>

\* catch clause of the default export
Catch ==
    /\ Playlist /\ pc = "thrown"
    /\ outcome' = Caught(cloudcasts, error)
    /\ pc' = "done"
    /\ UNCHANGED <<xvars, pvars, conc, mvars, mcap, inflight, suggested, loader, server,
                   tracklistsFile, manualTracklists, url, pageCount,
                   cloudcasts, i, delay, timer, data, error, attempts, fails,
                   seen, fetched>>

PlaylistNext ==
    \/ Invoke
    \/ WhileEnter
    \/ WhileExit
    \/ Request
    \/ LoopRunsOut
    \/ Respond429
    \/ RespondFailure
    \/ RespondOk
    \/ BackoffElapsed
    \/ AppendPage
    \/ PauseElapsed
    \/ Return
    \/ Catch

----------------------------------------------------------------------------
(* mixcloud.js *)

Mixcloud == loader = "mixcloud"

\* const MAX_RETRIES = 3
MAX_RETRIES == 3

\* const INITIAL_RETRY_DELAY = 1000
INITIAL_RETRY_DELAY == 1000

\* the two promises of Promise.all
Callers == {"profile", "casts"}

\* what one fetch(url) of mixcloud.js can end in; a non-ok response may carry
\* the error payload { error: { type: 'RateLimited', retry_after } }
MixResponses ==
    {[net |-> FALSE, status |-> 200, parses |-> b, rateLimited |-> FALSE,
      retry_after |-> 0] : b \in BOOLEAN}
        \cup {[net |-> FALSE, status |-> 429, parses |-> TRUE, rateLimited |-> TRUE,
               retry_after |-> ra] : ra \in RetryAfters}
        \cup {[net |-> FALSE, status |-> s, parses |-> b, rateLimited |-> FALSE,
               retry_after |-> 0] : s \in {429, 500}, b \in BOOLEAN}
        \cup {[net |-> TRUE, status |-> 0, parses |-> FALSE, rateLimited |-> FALSE,
               retry_after |-> 0]}

Pow2(n) == IF n = 0 THEN 1 ELSE IF n = 1 THEN 2 ELSE IF n = 2 THEN 4 ELSE 8

\* new Error(`API Error: ${response.status} - ...`)
ApiError(status) == [message |-> "API Error", status |-> status]

\* retryCount <= MAX_RETRIES
MayRetryInclusive(n) == n <= MAX_RETRIES

\* retryCount < MAX_RETRIES
MayRetry(n) == n < MAX_RETRIES

\* (errorData.error.retry_after || Math.pow(2, retryCount)) * 1000
RateLimitDelay(ra, n) == (IF ra # 0 THEN ra ELSE Pow2(n)) * 1000

\* INITIAL_RETRY_DELAY * Math.pow(2, retryCount)
FailureDelay(n) == INITIAL_RETRY_DELAY * Pow2(n)

\* if (data.data && Array.isArray(data.data)) cloudcasts.push(...data.data)
MixPush(acc, d) == IF d.hasData THEN acc \o d.data ELSE acc

\* return { username, profile, cloudcasts, fetchedAt, count: cloudcasts.length }
MixSuccessResult(cc) ==
    [state |-> "fulfilled", cloudcasts |-> cc, count |-> Len(cc),
     hasError |-> FALSE, error |-> "", status |-> 0, profile |-> "profile"]

\* return { username, profile: null, cloudcasts: [], error: error.message, fetchedAt, count: 0 }
MixFailureResult(cc, err) ==
    [state |-> "fulfilled", cloudcasts |-> <<>>, count |-> 0,
     hasError |-> TRUE, error |-> err.message, status |-> err.status,
     profile |-> "null"]

\* what the default export does with a rejection of Promise.all
MixCaught(cc, err) == MixFailureResult(cc, err)

\* await Promise.all([...]) inside try/catch: the promise of the default
\* export after caller p moved to newPc[p] (err: its rejection, if any).
\* Promise.all rejects with the first rejection and fulfils when both did.
Settle(newPc, p, cc, err) ==
    IF outcome.state # "pending" THEN outcome
    ELSE IF newPc[p] = "rejected" THEN MixCaught(cc, err)
    ELSE IF \A q \in Callers : newPc[q] = "resolved" THEN MixSuccessResult(cc)
    ELSE outcome

\* The default export is called: Promise.all starts fetchUserProfile and
\* fetchAllCloudcasts, and each runs up to its first `await fetch(url)`
MixInvoke ==
    /\ Mixcloud /\ pc = "idle"
    /\ pc' = "all"
    /\ mpc' = [q \in Callers |-> "awaiting"]
    /\ retryCount' = [q \in Callers |-> 0]
    /\ mattempts' = [q \in Callers |-> 1]
    /\ inflight' = inflight + 2
    /\ nextUrl' = StartUrl
    /\ cloudcasts' = <<>>
    /\ UNCHANGED <<xvars, pvars, conc, mcap, suggested, loader, server, tracklistsFile,
                   manualTracklists, url, pageCount, i, delay, timer, data,
                   error, outcome, attempts, fails, seen, fetched, mtimer,
                   mpages>>

\* fetchWithRetry(url, retryCount) of a retry or of a further page: fetch(url)
\* is issued
MixRequest(p) ==
    /\ Mixcloud /\ mpc[p] = "fetch"
    /\ p = "casts" => mpages < mcap
    /\ mpc' = [mpc EXCEPT ![p] = "awaiting"]
    /\ mattempts' = [mattempts EXCEPT ![p] = @ + 1]
    /\ inflight' = inflight + 1
    /\ UNCHANGED <<xvars, pvars, conc, mcap, suggested, loader, server, tracklistsFile,
                   manualTracklists, pc, url, pageCount, cloudcasts, i, delay,
                   timer, data, error, outcome, attempts, fails, seen,
                   fetched, retryCount, mtimer, nextUrl, mpages>>

\* a non-ok response with the RateLimited payload
MixRespondRateLimited(p) ==
    /\ Mixcloud /\ mpc[p] = "awaiting"
    /\ \E r \in MixResponses :
         /\ ~r.net /\ ~Ok(r.status) /\ r.parses /\ r.rateLimited
         /\ IF MayRetry(retryCount[p])
            THEN /\ mtimer' = [mtimer EXCEPT ![p] = RateLimitDelay(r.retry_after, retryCount[p])]
                 /\ mpc' = [mpc EXCEPT ![p] = "backoff"]
                 /\ suggested' = [suggested EXCEPT ![p] = r.retry_after]
                 /\ outcome' = outcome
            ELSE \* throw new Error(`API Error ...`), rethrown by the catch clause
                 /\ mtimer' = mtimer
                 /\ suggested' = suggested
                 /\ mpc' = [mpc EXCEPT ![p] = "rejected"]
                 /\ outcome' = Settle(mpc', p, cloudcasts, ApiError(r.status))
    /\ inflight' = inflight - 1
    /\ UNCHANGED <<xvars, pvars, conc, mcap, loader, server, tracklistsFile,
                   manualTracklists, pc, url, pageCount, cloudcasts, i, delay,
                   timer, data, error, attempts, fails, seen, fetched,
                   retryCount, nextUrl, mattempts, mpages>>

\* fetch rejects, or a non-ok response without the RateLimited payload
MixRespondFailure(p) ==
    /\ Mixcloud /\ mpc[p] = "awaiting"
    /\ \E r \in MixResponses :
         /\ r.net \/ (~Ok(r.status) /\ ~(r.parses /\ r.rateLimited))
         /\ IF MayRetry(retryCount[p])
            THEN /\ mtimer' = [mtimer EXCEPT ![p] = FailureDelay(retryCount[p])]
                 /\ mpc' = [mpc EXCEPT ![p] = "backoff"]
                 /\ outcome' = outcome
            ELSE /\ mtimer' = mtimer
                 /\ mpc' = [mpc EXCEPT ![p] = "rejected"]
                 /\ outcome' = Settle(mpc', p, cloudcasts,
                        IF r.net THEN NetworkError ELSE ApiError(r.status))
    /\ inflight' = inflight - 1
    /\ UNCHANGED <<xvars, pvars, conc, mcap, suggested, loader, server, tracklistsFile,
                   manualTracklists, pc, url, pageCount, cloudcasts, i, delay,
                   timer, data, error, attempts, fails, seen, fetched,
                   retryCount, nextUrl, mattempts, mpages>>

\* the retry timer fires: return fetchWithRetry(url, retryCount + 1)
MixBackoffElapsed(p) ==
    /\ Mixcloud /\ mpc[p] = "backoff"
    /\ mtimer' = [mtimer EXCEPT ![p] = 0]
    /\ retryCount' = [retryCount EXCEPT ![p] = @ + 1]
    /\ mpc' = [mpc EXCEPT ![p] = "fetch"]
    /\ suggested' = [suggested EXCEPT ![p] = 0]
    /\ UNCHANGED <<xvars, pvars, conc, mcap, inflight, loader, server, tracklistsFile,
                   manualTracklists, pc, url, pageCount, cloudcasts, i, delay,
                   timer, data, error, outcome, attempts, fails, seen,
                   fetched, nextUrl, mattempts, mpages>>

\* fetchUserProfile: an ok response, then return response.json()
ProfileRespondOk ==
    /\ Mixcloud /\ mpc["profile"] = "awaiting"
    /\ \E r \in MixResponses :
         /\ ~r.net /\ Ok(r.status)
         /\ mpc' = [mpc EXCEPT !["profile"] = IF r.parses THEN "resolved" ELSE "rejected"]
         /\ outcome' = Settle(mpc', "profile", cloudcasts, SyntaxError)
    /\ inflight' = inflight - 1
    /\ UNCHANGED <<xvars, pvars, conc, mcap, suggested, loader, server, tracklistsFile,
                   manualTracklists, pc, url, pageCount, cloudcasts, i, delay,
                   timer, data, error, attempts, fails, seen, fetched,
                   retryCount, mtimer, nextUrl, mattempts, mpages>>

\* fetchAllCloudcasts: an ok response, then the body of the while loop
CastsRespondOk ==
    /\ Mixcloud /\ mpc["casts"] = "awaiting"
    /\ \E r \in MixResponses :
         /\ ~r.net /\ Ok(r.status)
         /\ IF ~r.parses
            THEN \* await response.json() rejects, outside fetchWithRetry
                 /\ mpc' = [mpc EXCEPT !["casts"] = "rejected"]
                 /\ UNCHANGED <<xvars, pvars, conc, cloudcasts, nextUrl, mpages, retryCount,
                                mattempts>>
            ELSE /\ cloudcasts' = MixPush(cloudcasts, server[nextUrl])
                 /\ nextUrl' = server[nextUrl].next
                 /\ mpages' = mpages + 1
                 /\ IF server[nextUrl].next # NoUrl
                    THEN /\ mpc' = [mpc EXCEPT !["casts"] = "fetch"]
                         /\ retryCount' = [retryCount EXCEPT !["casts"] = 0]
                         /\ mattempts' = [mattempts EXCEPT !["casts"] = 0]
                    ELSE /\ mpc' = [mpc EXCEPT !["casts"] = "resolved"]
                         /\ UNCHANGED <<xvars, pvars, conc, retryCount, mattempts>>
         /\ outcome' = Settle(mpc', "casts", cloudcasts', SyntaxError)
    /\ inflight' = inflight - 1
    /\ UNCHANGED <<xvars, pvars, conc, mcap, suggested, loader, server, tracklistsFile,
                   manualTracklists, pc, url, pageCount, i, delay, timer,
                   data, error, attempts, fails, seen, fetched, mtimer>>

MixcloudNext ==
    \/ MixInvoke
    \/ \E p \in Callers : MixRequest(p)
    \/ \E p \in Callers : MixRespondRateLimited(p)
    \/ \E p \in Callers : MixRespondFailure(p)
    \/ \E p \in Callers : MixBackoffElapsed(p)
    \/ ProfileRespondOk
    \/ CastsRespondOk

----------------------------------------------------------------------------

vars == <<loader, server, tracklistsFile, manualTracklists, pc, url, pageCount,
          cloudcasts, i, delay, timer, data, error, outcome, attempts, fails, seen,
          fetched, mpc, retryCount, mtimer, nextUrl, mattempts, mpages, mcap,
          inflight, suggested, running, parked, overlapped, ready, content,
          classes, activeIframes, iframe, clicked, loads, listening, covers,
          marked, coverClass, hidden, errors, spc, playlistUrl, response,
          playlistData, pageSlug, pageFiles, dataFiles, navFile, written, exitCode, runs,
          arg, result>>

\* no second invocation
NoFrame == [pc |-> "absent"]

\* the locals before the default export of one of the data files `loaders`
\* is called
Start(loaders, cap) ==
    /\ loader \in loaders
    /\ server \in Servers
    /\ tracklistsFile \in (IF loader = "japan" THEN TracklistFiles ELSE {"missing"})
    /\ manualTracklists = EmptyTable
    /\ pc = "idle"
    /\ url = NoUrl
    /\ pageCount = 0
    /\ cloudcasts = <<>>
    /\ i = 0
    /\ delay = InitialDelay
    /\ timer = 0
    /\ data = UndefinedData
    /\ error = NoError
    /\ outcome = Pending
    /\ attempts = 0
    /\ fails = 0
    /\ seen = "none"
    /\ fetched = <<>>
    /\ mpc = [q \in Callers |-> "idle"]
    /\ retryCount = [q \in Callers |-> 0]
    /\ mtimer = [q \in Callers |-> 0]
    /\ nextUrl = NoUrl
    /\ mattempts = [q \in Callers |-> 0]
    /\ mpages = 0
    /\ mcap = cap
    /\ inflight = 0
    /\ suggested = [q \in Callers \cup {"playlist"} |-> 0]

\* no page of the site is open in a browser
NoDocument ==
    /\ ready = FALSE
    /\ content = <<>>
    /\ classes = <<>>
    /\ activeIframes = <<>>
    /\ iframe = <<>>
    /\ clicked = {}
    /\ loads = <<>>

\* no page with cover images is open
NoImages ==
    /\ listening = FALSE
    /\ covers = {}
    /\ marked = <<>>
    /\ coverClass = <<>>
    /\ hidden = <<>>
    /\ errors = <<>>

\* the create-playlist script is not run
NoScript ==
    /\ spc = "absent"
    /\ playlistUrl = <<>>
    /\ response = <<>>
    /\ playlistData = <<>>
    /\ pageSlug = <<>>
    /\ pageFiles = <<>>
    /\ dataFiles = <<>>
    /\ navFile = <<>>
    /\ written = <<>>
    /\ exitCode = -1
    /\ runs = 0

\* no helper function is called
NoCall == arg = <<>> /\ result = <<>>

\* one of the data files `loaders` is about to be called, alone
InitWith(loaders, cap) ==
    /\ Start(loaders, cap)
    /\ NoDocument
    /\ NoImages /\ NoScript /\ NoCall
    /\ running = 0
    /\ parked = NoFrame
    /\ overlapped = FALSE

Init == InitWith({"easton", "japan", "mixcloud"}, MaxMixPages)

Next == PlaylistNext \/ MixcloudNext

Spec == Init /\ [][Next]_vars

----------------------------------------------------------------------------
(* Two invocations on one event loop: eastonChopUp.js and
   theJapanGrooveLibrary.js called concurrently *)

Invocations == {1, 2}

\* everything the default export and the functions nested in it declare:
\* the locals of one invocation (with the history kept about it)
Frame ==
    [loader |-> loader, server |-> server, tracklistsFile |-> tracklistsFile,
     manualTracklists |-> manualTracklists, pc |-> pc, url |-> url,
     pageCount |-> pageCount, cloudcasts |-> cloudcasts, i |-> i,
     delay |-> delay, timer |-> timer, data |-> data, error |-> error,
     outcome |-> outcome, attempts |-> attempts, fails |-> fails,
     seen |-> seen, fetched |-> fetched, inflight |-> inflight,
     suggested |-> suggested]

\* the locals of an invocation that has not started
IdleFrame(l, srv, file) ==
    [loader |-> l, server |-> srv, tracklistsFile |-> file,
     manualTracklists |-> EmptyTable, pc |-> "idle", url |-> NoUrl,
     pageCount |-> 0, cloudcasts |-> <<>>, i |-> 0,
     delay |-> InitialDelay, timer |-> 0, data |-> UndefinedData,
     error |-> NoError, outcome |-> Pending, attempts |-> 0, fails |-> 0,
     seen |-> "none", fetched |-> <<>>, inflight |-> 0,
     suggested |-> [q \in Callers \cup {"playlist"} |-> 0]]

\* one `cloudcasts` array for all invocations (declared at module level)
AccumulatorShared(f) == cloudcasts

\* `const cloudcasts = []` inside fetchPlaylistCloudcasts: one array per call
Accumulator(f) == f.cloudcasts

UnderWay(position) == position \notin {"idle", "done"}

\* the event loop runs a continuation of the other invocation
Switch ==
    /\ running \in Invocations
    /\ running' = 3 - running
    /\ parked' = Frame
    /\ overlapped' = (overlapped \/ (UnderWay(pc) /\ UnderWay(parked.pc)))
    /\ loader' = parked.loader
    /\ server' = parked.server
    /\ tracklistsFile' = parked.tracklistsFile
    /\ manualTracklists' = parked.manualTracklists
    /\ pc' = parked.pc
    /\ url' = parked.url
    /\ pageCount' = parked.pageCount
    /\ cloudcasts' = Accumulator(parked)
    /\ i' = parked.i
    /\ delay' = parked.delay
    /\ timer' = parked.timer
    /\ data' = parked.data
    /\ error' = parked.error
    /\ outcome' = parked.outcome
    /\ attempts' = parked.attempts
    /\ fails' = parked.fails
    /\ seen' = parked.seen
    /\ fetched' = parked.fetched
    /\ inflight' = parked.inflight
    /\ suggested' = parked.suggested
    /\ UNCHANGED <<xvars, pvars, mvars, mcap>>

\* the two playlists are served from different collections
EastonServers == {MkServer("disjoint", len, NoUrl) : len \in Urls}

JapanServers == {MkServer(kind, 1, NoUrl) : kind \in {"overlap", "keyless"}}

\* eastonChopUp.js (invocation 1) and theJapanGrooveLibrary.js (invocation 2)
\* have both been called; neither has taken a step
ConcInit ==
    /\ Start({"easton"}, MaxMixPages)
    /\ server \in EastonServers
    /\ running = 1
    /\ overlapped = FALSE
    /\ NoDocument
    /\ NoImages /\ NoScript /\ NoCall
    /\ \E srv \in JapanServers : parked = IdleFrame("japan", srv, "tableA")

ConcNext == PlaylistNext \/ Switch

ConcSpec == ConcInit /\ [][ConcNext]_vars

----------------------------------------------------------------------------
(* lazy-player.js: click-to-load players of one page *)

\* the loaders' variables, which the page script leaves alone
lvars == <<loader, server, tracklistsFile, manualTracklists, pc, url, pageCount,
           cloudcasts, i, delay, timer, data, error, outcome, attempts, fails,
           seen, fetched, mvars, mcap, inflight, suggested, conc>>

\* number of .mix-player__media-wrapper[data-src] elements of the page
NumWrappers == 3

\* times the model lets one player be loaded
MaxLoads == 2

Wrappers == 1..NumWrappers

\* markup of a wrapper as the template renders it: the cover image, with or
\* without a .mix-player__play-overlay button
Cover(w, overlay) == [kind |-> "cover", of |-> w, overlay |-> overlay]

\* markup of <div class="widget-container"><iframe src=...></iframe></div>
Widget(w) == [kind |-> "widget", of |-> w, overlay |-> FALSE]

\* the markup read after the cover has been replaced
SerializeAfter(nodes) == Widget(nodes.markup.of)

\* element.innerHTML (getter): the markup of the child nodes; listeners are
\* not part of it
Serialize(nodes) == nodes.markup

\* element.innerHTML = html (setter): new child nodes, none with a listener
Parse(html) == [markup |-> html, listener |-> 0]

\* the player loaded at once instead of on click
AttachEager(nodes) == Parse(Widget(nodes.markup.of))

\* attachClickHandler(wrapper): if (!playButton) return;
\* playButton.addEventListener('click', ...)
Attach(nodes) ==
    IF nodes.markup.overlay
    THEN [nodes EXCEPT !.listener = @ + 1]
    ELSE nodes

\* forEach over activeIframes without the test
OthersNone(w) == {}

\* activeIframes.forEach(...): the entries with activeWrapper !== wrapper
Others(w) == (DOMAIN activeIframes) \ {w}

\* activeIframes.delete(activeWrapper) for the wrappers in S
Delete(map, S) == [a \in (DOMAIN map) \ S |-> map[a]]

\* activeIframes.set(wrapper, originalHTML)
Set(map, w, html) ==
    [a \in (DOMAIN map) \cup {w} |-> IF a = w THEN html ELSE map[a]]

\* The page has been parsed; the script has not run yet. Every wrapper holds
\* its cover.
PlayerInit ==
    /\ Start({"easton"}, MaxMixPages)
    /\ server = MkServer("disjoint", 1, NoUrl)
    /\ running = 0 /\ parked = NoFrame /\ overlapped = FALSE
    /\ NoImages /\ NoScript /\ NoCall
    /\ ready = FALSE
    /\ \E over \in [Wrappers -> BOOLEAN] :
          content = [w \in Wrappers |-> Parse(Cover(w, over[w]))]
    /\ classes = [w \in Wrappers |-> {}]
    /\ activeIframes = <<>>
    /\ iframe = [w \in Wrappers |-> "none"]
    /\ clicked = {}
    /\ loads = [w \in Wrappers |-> 0]

\* the DOMContentLoaded handler: attachClickHandler for every wrapper
DOMContentLoaded ==
    /\ ~ready /\ content # <<>>
    /\ ready' = TRUE
    /\ content' = [w \in Wrappers |-> Attach(content[w])]
    /\ UNCHANGED <<xvars, lvars, classes, activeIframes, iframe, clicked, loads>>

\* a click on the play overlay of w that no listener hears
ClickUnheard(w) ==
    /\ content # <<>>
    /\ content[w].markup.overlay /\ content[w].listener = 0
    /\ clicked' = clicked \cup {w}
    /\ UNCHANGED <<xvars, lvars, ready, content, classes, activeIframes, iframe, loads>>

\* a click on the play overlay of w: the listener of attachClickHandler
Click(w) ==
    /\ content # <<>>
    /\ content[w].markup.overlay /\ content[w].listener > 0
    /\ loads[w] < MaxLoads
    /\ clicked' = clicked \cup {w}
    /\ LET stopped == Others(w)
           originalHTML == Serialize(content[w])
       IN  /\ content' =
                 [a \in Wrappers |->
                     IF a = w THEN Parse(Widget(w))
                     ELSE IF a \in stopped THEN Attach(Parse(activeIframes[a]))
                     ELSE content[a]]
           /\ classes' =
                 [a \in Wrappers |->
                     IF a = w THEN classes[a] \cup {"loading", "player-loaded"}
                     ELSE IF a \in stopped THEN classes[a] \ {"player-loaded"}
                     ELSE classes[a]]
           /\ iframe' =
                 [a \in Wrappers |->
                     IF a = w THEN "loading"
                     ELSE IF a \in stopped THEN "none"
                     ELSE iframe[a]]
           /\ activeIframes' = Set(Delete(activeIframes, stopped), w, originalHTML)
    /\ loads' = [loads EXCEPT ![w] = @ + 1]
    /\ UNCHANGED <<xvars, lvars, ready>>

\* the load event of the iframe of w
IframeLoad(w) ==
    /\ content # <<>>
    /\ iframe[w] = "loading"
    /\ iframe' = [iframe EXCEPT ![w] = "loaded"]
    /\ classes' = [classes EXCEPT ![w] = @ \ {"loading"}]
    /\ UNCHANGED <<xvars, lvars, ready, content, activeIframes, clicked, loads>>

PlayerNext ==
    \/ DOMContentLoaded
    \/ \E w \in Wrappers : ClickUnheard(w) \/ Click(w) \/ IframeLoad(w)

PlayerSpec == PlayerInit /\ [][PlayerNext]_vars

----------------------------------------------------------------------------
(* image-fallback.js: placeholder for broken cover images *)

\* no data file is being loaded and no player page is open
Quiet ==
    /\ Start({"easton"}, MaxMixPages)
    /\ server = MkServer("disjoint", 1, NoUrl)
    /\ running = 0 /\ parked = NoFrame /\ overlapped = FALSE
    /\ NoDocument

\* number of .mix-player__image elements of the page
NumImages == 2

\* error events the model lets fire on one image
MaxErrors == 2

Images == 1..NumImages

\* The page has been parsed; the script has not run yet. An image may or may
\* not sit inside a .mix-player__cover.
ImageInit ==
    /\ Quiet /\ NoScript /\ NoCall
    /\ listening = FALSE
    /\ covers \in SUBSET Images
    /\ marked = [img \in Images |-> FALSE]
    /\ coverClass = [img \in Images |-> FALSE]
    /\ hidden = [img \in Images |-> FALSE]
    /\ errors = [img \in Images |-> [fired |-> 0, heard |-> 0]]

\* the DOMContentLoaded handler: images.forEach(img => img.addEventListener(...))
ImagesReady ==
    /\ marked # <<>> /\ ~listening
    /\ listening' = TRUE
    /\ UNCHANGED <<lvars, pvars, svars, fvars, covers, marked, coverClass,
                   hidden, errors>>

\* an error event on img before the listener is attached
ErrorUnheard(img) ==
    /\ marked # <<>> /\ ~listening
    /\ errors[img].fired < MaxErrors
    /\ errors' = [errors EXCEPT ![img].fired = @ + 1]
    /\ UNCHANGED <<lvars, pvars, svars, fvars, listening, covers, marked,
                   coverClass, hidden>>

\* if (this.dataset.fallback === 'true') return;
AlreadyTried(img) == marked[img]

\* a cover is found for every image
ClosestAlways(img) == TRUE

\* this.closest('.mix-player__cover') is not null
Closest(img) == img \in covers

\* an error event on img: the listener
ImageError(img) ==
    /\ marked # <<>> /\ listening
    /\ errors[img].fired < MaxErrors
    /\ errors' = [errors EXCEPT ![img].fired = @ + 1, ![img].heard = @ + 1]
    /\ IF AlreadyTried(img)
       THEN UNCHANGED <<marked, coverClass, hidden>>
       ELSE /\ marked' = [marked EXCEPT ![img] = TRUE]
            /\ coverClass' = [coverClass EXCEPT ![img] = Closest(img)]
            /\ hidden' = [hidden EXCEPT ![img] = TRUE]
    /\ UNCHANGED <<lvars, pvars, svars, fvars, listening, covers>>

ImageNext ==
    \/ ImagesReady
    \/ \E img \in Images : ErrorUnheard(img) \/ ImageError(img)

ImageSpec == ImageInit /\ [][ImageNext]_vars

----------------------------------------------------------------------------
(* create-playlist-page.js: slugToCamelCase *)

Lower == {"a", "b"}
Digits == {"1", "2"}
Dash == "-"

\* letter.toUpperCase()
toUpperCase(c) == IF c = "a" THEN "A" ELSE IF c = "b" THEN "B" ELSE c

\* slug.replace(/-([a-z])/g, (match, letter) => letter.toUpperCase()): the
\* matches are found left to right and do not overlap; what is not matched
\* is copied
RECURSIVE slugToCamelCase(_)
slugToCamelCase(slug) ==
    IF slug = <<>> THEN <<>>
    ELSE IF Len(slug) >= 2 /\ slug[1] = Dash /\ slug[2] \in Lower
         THEN <<toUpperCase(slug[2])>> \o slugToCamelCase(SubSeq(slug, 3, Len(slug)))
         ELSE <<slug[1]>> \o slugToCamelCase(Tail(slug))

\* longest page slug given to slugToCamelCase
MaxSlugLen == 3

SlugChars == Lower \cup Digits \cup {Dash}

\* page slugs: lowercase letters, digits and single dashes between them
PageSlugs ==
    {slug \in UNION {[1..n -> SlugChars] : n \in 1..MaxSlugLen} :
        /\ slug[1] # Dash /\ slug[Len(slug)] # Dash
        /\ \A k \in 1..(Len(slug) - 1) : ~(slug[k] = Dash /\ slug[k + 1] = Dash)}

\* slugToCamelCase is about to be called with a page slug
CamelInit ==
    /\ Quiet /\ NoImages /\ NoScript
    /\ arg \in PageSlugs
    /\ result = <<>>

\* const dataVarName = slugToCamelCase(pageSlug)
CamelCall ==
    /\ result = <<>>
    /\ result' = slugToCamelCase(arg)
    /\ UNCHANGED <<lvars, pvars, ivars, svars, arg>>

CamelNext == CamelCall

CamelSpec == CamelInit /\ [][CamelNext]_vars

----------------------------------------------------------------------------
(* create-playlist-page.js: the interactive script, run and run again *)

\* times the script is started
MaxRuns == 2

\* the playlist slugs a matching URL can name
MixSlugs == {<<"a">>, <<"a", "-", "1">>}

\* the answers to 'Enter Mixcloud playlist URL: ', trimmed
UrlAnswers ==
    {[kind |-> "empty", playlistSlug |-> <<>>],
     [kind |-> "nomatch", playlistSlug |-> <<>>]}
    \cup {[kind |-> "match", playlistSlug |-> ms] : ms \in MixSlugs}

\* the answers to 'Enter page slug/name', trimmed; <<>> is the empty answer
SlugAnswers == {<<>>, <<"a", "-", "b">>}

\* the answers to 'Enter page description', trimmed
DescriptionAnswers == {"", "typed"}

\* what the metadata request can end in: fetch rejects, a status outside
\* 200-299, a body that is not JSON, or the playlist
ScriptResponses ==
    {[kind |-> k, name |-> "", description |-> ""] :
        k \in {"network-error", "not-ok", "not-json"}}
    \cup {[kind |-> "ok", name |-> n, description |-> d] :
             n \in {"Old", "New"}, d \in {"", "api"}}

\* `/${pageSlug}/`
PageUrl(slug) == <<"/">> \o slug \o <<"/">>

Home == [title |-> "The Groove Library", url |-> <<"/">>]

\* navigation.json before the first run: absent, or a list written by hand or
\* by an earlier JSON.stringify(navigation, null, 2)
NavFiles ==
    {[exists |-> FALSE, pages |-> <<>>, layout |-> "none"]}
    \cup {[exists |-> TRUE, pages |-> ps, layout |-> l] :
             ps \in {<<>>, <<Home>>,
                     <<Home, [title |-> "Old", url |-> PageUrl(<<"a">>)]>>},
             l \in {"hand", "two-space"}}

\* before the first question is answered
ScriptInit ==
    /\ Quiet /\ NoImages /\ NoCall
    /\ spc = "url"
    /\ playlistUrl = <<>>
    /\ response = <<>>
    /\ playlistData = <<>>
    /\ pageSlug = <<>>
    /\ pageFiles = <<>>
    /\ dataFiles = <<>>
    /\ navFile \in NavFiles
    /\ written = <<>>
    /\ exitCode = -1
    /\ runs = 1

\* catch (error) { console.error(...); process.exit(1); }
Exit1 ==
    /\ spc' = "exited"
    /\ exitCode' = 1

\* url.match(/mixcloud\.com\/([^/]+)\/playlists\/([^/]+)/) is not null
Matches(u) == u.kind = "match"

\* 'Enter Mixcloud playlist URL: ' is answered: the URL is checked and the
\* metadata request goes out
AnswerUrl(u) ==
    /\ spc = "url"
    /\ playlistUrl' = u
    /\ IF u.kind = "empty" \/ ~Matches(u)
       THEN Exit1
       ELSE spc' = "fetching" /\ UNCHANGED exitCode
    /\ UNCHANGED <<lvars, pvars, ivars, fvars, response, playlistData,
                   pageSlug, pageFiles, dataFiles, navFile, written, runs>>

\* every answer is taken for the playlist
ThrowsNever(r) == FALSE

\* fetch rejects, !response.ok, or response.json() rejects
Throws(r) == r.kind # "ok"

\* the metadata request is answered
FetchResponds(r) ==
    /\ spc = "fetching"
    /\ response' = r
    /\ IF Throws(r)
       THEN Exit1 /\ UNCHANGED playlistData
       ELSE /\ playlistData' = [name |-> r.name, description |-> r.description]
            /\ spc' = "slug"
            /\ UNCHANGED exitCode
    /\ UNCHANGED <<lvars, pvars, ivars, fvars, playlistUrl, pageSlug,
                   pageFiles, dataFiles, navFile, written, runs>>

\* 'Enter page slug/name' is answered: question(...) || defaultSlug
AnswerSlug(a) ==
    /\ spc = "slug"
    /\ pageSlug' = IF a = <<>> THEN playlistUrl.playlistSlug ELSE a
    /\ spc' = "description"
    /\ UNCHANGED <<lvars, pvars, ivars, fvars, playlistUrl, response,
                   playlistData, pageFiles, dataFiles, navFile, written,
                   exitCode, runs>>

\* playlistData.description || 'A curated collection of mixes'
defaultDescription ==
    IF playlistData.description = "" THEN "A curated collection of mixes"
    ELSE playlistData.description

\* the text createPageFile writes
pageContent(slug, playlistName, dataVarName, pageDescription) ==
    [title |-> playlistName, description |-> pageDescription,
     playlist |-> slug, cloudcasts |-> dataVarName]

\* 'Enter page description' is answered; createPageFile writes
\* src/<pageSlug>.njk
CreatePageFile(d) ==
    /\ spc = "description"
    /\ LET pageDescription == IF d = "" THEN defaultDescription ELSE d
       IN  pageFiles' = Set(pageFiles, pageSlug,
                            pageContent(pageSlug, playlistData.name,
                                        slugToCamelCase(pageSlug),
                                        pageDescription))
    /\ written' = Append(written, "page")
    /\ spc' = "page-written"
    /\ UNCHANGED <<lvars, pvars, ivars, fvars, playlistUrl, response,
                   playlistData, pageSlug, dataFiles, navFile, exitCode, runs>>

\* createDataFile writes src/_data/<dataVarName>.js, a loader for the playlist
CreateDataFile ==
    /\ spc = "page-written"
    /\ dataFiles' = Set(dataFiles, slugToCamelCase(pageSlug),
                        [PLAYLIST_SLUG |-> playlistUrl.playlistSlug])
    /\ written' = Append(written, "data")
    /\ spc' = "data-written"
    /\ UNCHANGED <<lvars, pvars, ivars, fvars, playlistUrl, response,
                   playlistData, pageSlug, pageFiles, navFile, exitCode, runs>>

\* no page is taken for listed
ListedNever(pages, slug) == FALSE

\* navigation.pages.some(page => page.url === `/${pageSlug}/`)
Listed(pages, slug) == \E k \in DOMAIN pages : pages[k].url = PageUrl(slug)

\* updateNavigation, and the end of main
UpdateNavigation ==
    /\ spc = "data-written"
    /\ IF Listed(navFile.pages, pageSlug)
       THEN UNCHANGED <<navFile, written>>
       ELSE /\ navFile' =
                 [exists |-> TRUE,
                  pages |-> Append(navFile.pages,
                                   [title |-> playlistData.name,
                                    url |-> PageUrl(pageSlug)]),
                  layout |-> "two-space"]
            /\ written' = Append(written, "navigation")
    /\ spc' = "done"
    /\ exitCode' = 0
    /\ UNCHANGED <<lvars, pvars, ivars, fvars, playlistUrl, response,
                   playlistData, pageSlug, pageFiles, dataFiles, runs>>

\* the script is started again; the files are as the last run left them
Rerun ==
    /\ spc \in {"exited", "done"}
    /\ runs < MaxRuns
    /\ runs' = runs + 1
    /\ spc' = "url"
    /\ playlistUrl' = <<>>
    /\ response' = <<>>
    /\ playlistData' = <<>>
    /\ pageSlug' = <<>>
    /\ written' = <<>>
    /\ exitCode' = -1
    /\ UNCHANGED <<lvars, pvars, ivars, fvars, pageFiles, dataFiles, navFile>>

ScriptNext ==
    \/ \E u \in UrlAnswers : AnswerUrl(u)
    \/ \E r \in ScriptResponses : FetchResponds(r)
    \/ \E a \in SlugAnswers : AnswerSlug(a)
    \/ \E d \in DescriptionAnswers : CreatePageFile(d)
    \/ CreateDataFile
    \/ UpdateNavigation
    \/ Rerun

ScriptSpec == ScriptInit /\ [][ScriptNext]_vars

----------------------------------------------------------------------------
(* helpers.js: formatDuration *)

\* longest duration given to formatDuration, in seconds
MaxSeconds == 7325

\* Math.floor(seconds / 3600)
hours(seconds) == seconds \div 3600

\* the minutes of the whole duration
minutesTotal(seconds) == seconds \div 60

\* Math.floor((seconds % 3600) / 60)
minutes(seconds) == (seconds % 3600) \div 60

\* `${hours}h ${minutes}m` or `${minutes}m`: the text as its numbers, each with
\* the unit letter that follows it
formatDuration(seconds) ==
    IF hours(seconds) > 0
    THEN <<[n |-> hours(seconds), unit |-> "h"],
           [n |-> minutes(seconds), unit |-> "m"]>>
    ELSE <<[n |-> minutes(seconds), unit |-> "m"]>>

\* formatDuration is about to be called with a whole number of seconds
DurationInit ==
    /\ Quiet /\ NoImages /\ NoScript
    /\ arg \in 0..MaxSeconds
    /\ result = <<>>

\* {{ helpers.formatDuration(seconds) }}
DurationCall ==
    /\ result = <<>>
    /\ result' = formatDuration(arg)
    /\ UNCHANGED <<lvars, pvars, ivars, svars, arg>>

DurationNext == DurationCall

DurationSpec == DurationInit /\ [][DurationNext]_vars

----------------------------------------------------------------------------
(* Helpers of the properties *)

Success == outcome.state = "fulfilled" /\ ~outcome.hasError

Failure == outcome.state = "fulfilled" /\ outcome.hasError

NoDup(q) == \A a, b \in 1..Len(q) : a # b => q[a] # q[b]

\* item list of the page the server holds for url u
ItemsOf(u) == IF server[u].hasData THEN server[u].data ELSE <<>>

\* concatenation of the item lists of the pages f[1], f[2], ...
RECURSIVE ConcatPages(_)
ConcatPages(f) ==
    IF f = <<>> THEN <<>> ELSE ItemsOf(Head(f)) \o ConcatPages(Tail(f))

\* the urls a loader is led through when no request ever fails
RECURSIVE CleanWalk(_, _)
CleanWalk(u, n) ==
    IF u = NoUrl \/ n = 0 THEN <<>> ELSE <<u>> \o CleanWalk(server[u].next, n - 1)

\* items of all pages the server holds, each page taken once
AllItems == ConcatPages([u \in Urls |-> u])

----------------------------------------------------------------------------
(* Properties *)

\* C1: whatever the server answers, the default export of eastonChopUp.js,
\* theJapanGrooveLibrary.js and mixcloud.js never rejects: once the loader has
\* stopped (playlist) or Promise.all has settled (mixcloud.js), its promise is
\* fulfilled with a result record.
NeverRejects ==
    /\ outcome.state # "rejected"
    /\ (Playlist /\ pc = "done") => outcome.state = "fulfilled"
    /\ (Mixcloud /\ ((\E q \in Callers : mpc[q] = "rejected")
                       \/ (\A q \in Callers : mpc[q] = "resolved")))
          => outcome.state = "fulfilled"

\* C1 witness: a later page failed for good after a mix of failures, and the
\* loader returned a record
NeverRejectsWitness ==
    /\ Playlist /\ pc = "done" /\ outcome.state = "fulfilled"
    /\ outcome.hasError /\ seen = "mixed" /\ pageCount >= 1

\* C2: a result that carries an error has cloudcasts empty and count 0
ErrorMeansEmpty ==
    outcome.hasError => outcome.cloudcasts = <<>> /\ outcome.count = 0

\* C2 witness: pages had been accumulated before the failing page
ErrorMeansEmptyWitness ==
    /\ Playlist /\ Failure
    /\ pageCount >= 1 /\ cloudcasts # <<>>

\* C3: a successful result of eastonChopUp.js holds the item lists of the
\* pages fetched, concatenated in request order, and count is its length
ConcatenatesPages ==
    (loader = "easton" /\ Success)
        => /\ outcome.cloudcasts = ConcatPages(fetched)
           /\ outcome.count = Len(outcome.cloudcasts)

\* C3 witness: two different pages with items were fetched
ConcatenatesPagesWitness ==
    /\ loader = "easton" /\ Success
    /\ fetched = <<1, 2>> /\ Len(outcome.cloudcasts) = 4

\* C4 as stated: in a successful result of the playlist loader no item
\* appears twice, whatever next-page pointers the server supplies (checked
\* for servers whose pages hold pairwise distinct items)
NoDuplicateItems ==
    (loader = "easton" /\ Success /\ NoDup(AllItems)) => NoDup(outcome.cloudcasts)

\* C4 amended: in a successful result of the playlist loader no item appears
\* twice when no page URL was requested twice and the server's pages hold
\* pairwise distinct items
NoDuplicateItemsOnDistinctPages ==
    (loader = "easton" /\ Success /\ NoDup(fetched) /\ NoDup(AllItems))
        => NoDup(outcome.cloudcasts)

\* C4 witness: several distinct pages of distinct items were fetched
NoDuplicateItemsWitness ==
    /\ loader = "easton" /\ Success /\ NoDup(fetched) /\ NoDup(AllItems)
    /\ Len(fetched) >= 2 /\ Len(outcome.cloudcasts) >= 4

\* C5: fetchWithRetry of the playlist loaders returns normally only with the
\* parsed body of a successful response: when the attempts are used up it
\* throws to fetchPlaylistCloudcasts
ExhaustionThrows ==
    (Playlist /\ pc = "page") => ~data.undefined /\ fails < Retries

\* C6: when every attempt for a page failed, the result has error set,
\* cloudcasts empty and count 0
ExhaustionFails ==
    (Playlist /\ pc = "done" /\ fails = Retries)
        => /\ Failure
           /\ outcome.cloudcasts = <<>>
           /\ outcome.count = 0

\* C6 witness: a later page answered HTTP 429 to every attempt
ExhaustionFailsWitness ==
    /\ Playlist /\ pc = "done" /\ fails = Retries
    /\ seen = "s429" /\ pageCount >= 1 /\ cloudcasts # <<>>

\* C7: when every request for a URL is answered with the same status S other
\* than 2xx and 429, exactly 3 requests are issued for it and the result's
\* error names S, with cloudcasts empty
SameStatusNamed ==
    \A S \in {500, 404} :
       (Playlist /\ seen = (IF S = 500 THEN "s500" ELSE "s404"))
          => /\ attempts <= 3
             /\ pc = "done" =>
                   /\ attempts = 3
                   /\ Failure
                   /\ outcome.error = "HTTP" /\ outcome.status = S
                   /\ outcome.cloudcasts = <<>>

\* C7 witness: the second page answered 500 three times
SameStatusNamedWitness ==
    /\ Playlist /\ pc = "done" /\ seen = "s500" /\ pageCount = 1
    /\ attempts = 3 /\ outcome.status = 500

\* C8 as stated: fetchWithRetry of mixcloud.js issues at most 3 requests for
\* one URL
MixAtMostThreeAttempts ==
    Mixcloud => \A q \in Callers : mattempts[q] <= 3

\* C8 amended: fetchWithRetry of mixcloud.js issues at most 4 requests for one
\* URL (the first attempt and MAX_RETRIES = 3 retries), rate-limited and
\* other failed attempts counted together
MixAtMostFourAttempts ==
    Mixcloud => \A q \in Callers : mattempts[q] <= 4

\* C8 witness: a URL failed for good after 4 requests
MixAtMostFourAttemptsWitness ==
    /\ Mixcloud
    /\ mpc["casts"] = "rejected" /\ mattempts["casts"] = 4 /\ mpages >= 1

\* C9: when fewer than 3 failed attempts precede the successful response of
\* every page, the result of eastonChopUp.js is the successful result of the
\* run without failures: each page on the server's path once per visit
TransientInvisible ==
    (loader = "easton" /\ pc = "done" /\ fails < Retries)
        => /\ Success
           /\ fetched = CleanWalk(StartUrl, PageLimit)
           /\ outcome.cloudcasts = ConcatPages(CleanWalk(StartUrl, PageLimit))
           /\ outcome.count = Len(ConcatPages(CleanWalk(StartUrl, PageLimit)))

\* C9 witness: the last of two pages succeeded on its third attempt
TransientInvisibleWitness ==
    /\ loader = "easton" /\ pc = "done" /\ Success
    /\ fails = 2 /\ attempts = 3 /\ fetched = <<1, 2>>
    /\ Len(outcome.cloudcasts) = 4

\* C10: the playlist loader never has more than 100 pages, requests a page
\* only while fewer than 100 were fetched, and a run of eastonChopUp.js that
\* fetched 100 pages ends successfully with the items of those 100 pages
PageCeiling ==
    Playlist =>
       /\ pageCount <= 100 /\ Len(fetched) <= 100
       /\ pc \in {"for", "awaiting", "backoff"} => pageCount < 100
       /\ (loader = "easton" /\ pc = "done" /\ pageCount = 100)
             => /\ Success
                /\ Len(fetched) = 100
                /\ outcome.cloudcasts = ConcatPages(fetched)

\* C10 witness: the server still supplied a next page after the 100th
PageCeilingWitness ==
    /\ loader = "easton" /\ pc = "done" /\ pageCount = 100
    /\ url # NoUrl /\ Success /\ Len(outcome.cloudcasts) = 200

----------------------------------------------------------------------------
(* Scheduling *)

\* Every fetch is answered, every timer fires and every continuation of an
\* await runs: a step of the playlist loader that stays possible is taken.
\* The items of a page steer the loader only by being there or not and by
\* having a key or not.
LiveServers ==
    {MkServer(kind, len, back) :
        kind \in {"sparse", "keyless"}, len \in Urls, back \in 0..NumUrls}

LiveInit == InitWith({"easton", "japan"}, MaxMixPages) /\ server \in LiveServers

LiveSpec == LiveInit /\ [][PlaylistNext]_vars /\ WF_vars(PlaylistNext)

\* C11: every invocation of eastonChopUp.js and theJapanGrooveLibrary.js
\* eventually returns a result, whatever the server's next-page pointers
Terminates == <>(Playlist => (pc = "done" /\ outcome.state = "fulfilled"))

\* C11 witness: theJapanGrooveLibrary.js returned although the server never
\* stopped supplying a next page
TerminatesWitness ==
    /\ loader = "japan" /\ pc = "done" /\ outcome.state = "fulfilled"
    /\ pageCount = PageLimit /\ url # NoUrl

----------------------------------------------------------------------------
(* mixcloud.js against servers that never stop supplying a next page *)

\* the model lets fetchAllCloudcasts go one page past the ceiling of the
\* playlist loaders
DeepInit == InitWith({"mixcloud"}, PageLimit + 1)

DeepSpec == DeepInit /\ [][MixcloudNext]_vars

\* C12: fetchAllCloudcasts of mixcloud.js stops requesting pages at a page
\* ceiling (100 pages, as in the playlist loaders)
MixPageCeiling == Mixcloud => mpages <= PageLimit

----------------------------------------------------------------------------
(* Properties of the control flow *)

\* C13: once a page without next-page pointer has been appended, the playlist
\* loader issues no further request, and eastonChopUp.js returns a successful
\* result with exactly the items accumulated up to and including that page
StopsAtLastPage ==
    (Playlist /\ pageCount >= 1 /\ url = NoUrl)
        => /\ pc \in {"while", "returned", "thrown", "done"}
           /\ inflight = 0
           /\ attempts <= Retries
           /\ (loader = "easton" /\ pc = "done")
                 => /\ Success
                    /\ Len(fetched) = pageCount
                    /\ outcome.cloudcasts = ConcatPages(fetched)

\* C13 witness: the second page carried no next-page pointer
StopsAtLastPageWitness ==
    /\ loader = "easton" /\ pc = "done" /\ Success
    /\ pageCount = 2 /\ url = NoUrl /\ Len(outcome.cloudcasts) = 4

\* C14: the playlist loader has at most one fetch outstanding, and while a
\* fetch is outstanding every page requested before it has been answered and
\* appended, the outstanding one being for the next pointer of the last
StrictlySequential ==
    Playlist =>
       /\ inflight <= 1
       /\ inflight = 1 =>
             /\ pc = "awaiting"
             /\ Len(fetched) = pageCount
             /\ cloudcasts = ConcatPages(fetched)
             /\ url = (IF fetched = <<>> THEN StartUrl
                       ELSE server[fetched[Len(fetched)]].next)

\* C14 witness: the request for the second page is outstanding
StrictlySequentialWitness ==
    /\ Playlist /\ inflight = 1 /\ pageCount = 1 /\ url = 2
    /\ cloudcasts # <<>>

\* C16: in mixcloud.js a load fails only after the retries were used up, also
\* when a 2xx body failed to parse
MalformedBodyRetried ==
    Mixcloud =>
       \A q \in Callers : mpc[q] = "rejected" => retryCount[q] = MAX_RETRIES

\* C17: while a loader waits after a rate-limit response that suggested a
\* retry delay, the wait is that suggested delay (playlist loader and
\* mixcloud.js)
SuggestedDelayWaited ==
    /\ (Playlist /\ pc = "backoff" /\ suggested["playlist"] # 0)
          => timer = suggested["playlist"] * 1000
    /\ Mixcloud =>
          \A q \in Callers :
             (mpc[q] = "backoff" /\ suggested[q] # 0)
                => mtimer[q] = suggested[q] * 1000

\* C18: when pagination of theJapanGrooveLibrary.js completed without an
\* unrecovered fetch failure, the result has no error and one entry per
\* accumulated item
MergeKeepsEveryItem ==
    (loader = "japan" /\ pc = "done" /\ fails < Retries)
        => /\ Success
           /\ Len(outcome.cloudcasts) = Len(cloudcasts)

\* C19: a returned result is terminal: once the result has been returned it
\* does not change and the invocation issues no further HTTP request
ResultIsTerminal ==
    [][outcome.state # "pending"
          => (outcome' = outcome /\ inflight' <= inflight)]_vars

\* C20: with tracklists.json missing, theJapanGrooveLibrary.js returns the
\* fetch result with every item unchanged
MissingFileUnenriched ==
    (loader = "japan" /\ tracklistsFile = "missing" /\ pc = "done"
        /\ fails < Retries)
        => /\ Success
           /\ outcome.cloudcasts = cloudcasts
           /\ outcome.count = Len(cloudcasts)

\* the locals of invocation k
View(k) == IF running = k THEN Frame ELSE parked

\* items of the pages `pages` of the collection srv
RECURSIVE ItemsServed(_, _)
ItemsServed(srv, pages) ==
    IF pages = <<>> THEN <<>>
    ELSE (IF srv[Head(pages)].hasData THEN srv[Head(pages)].data ELSE <<>>)
            \o ItemsServed(srv, Tail(pages))

\* the result invocation f returns when it runs alone and receives what f
\* received
OwnResult(f) ==
    IF f.error # NoError
    THEN FailureResult(<<>>, f.error)
    ELSE SuccessResult(
            IF f.loader = "japan"
            THEN mergeTracklists(ItemsServed(f.server, f.fetched), f.manualTracklists)
            ELSE ItemsServed(f.server, f.fetched))

\* C15: with eastonChopUp.js and theJapanGrooveLibrary.js running
\* concurrently, a step changes the locals of the invocation that takes it
\* and of no other, and an invocation that is done has returned the result of
\* its own responses alone
Independent ==
    [][\A k \in Invocations :
          /\ View(k)' # View(k) => (running = k /\ running' = k)
          /\ View(k).pc = "done" => View(k).outcome = OwnResult(View(k))]_vars

\* C15 witness: both invocations were under way at the same time and both are
\* done, one with all its items and one with an error of its own
IndependentWitness ==
    /\ running \in Invocations /\ overlapped
    /\ pc = "done" /\ parked.pc = "done"
    /\ \E k \in Invocations :
          /\ View(k).loader = "easton" /\ ~View(k).outcome.hasError
          /\ Len(View(k).outcome.cloudcasts) = 4
          /\ View(3 - k).outcome.hasError

----------------------------------------------------------------------------
(* Properties of lazy-player.js *)

\* the wrappers that hold a player
Loaded == {w \in Wrappers : content[w].markup.kind = "widget"}

\* C21: whatever play overlays are clicked, at most one wrapper holds a
\* player (an iframe, the player-loaded class), and activeIframes has an entry
\* for that wrapper and no other
OnePlayerAtATime ==
    content # <<>> =>
       /\ Cardinality(Loaded) <= 1
       /\ DOMAIN activeIframes = Loaded
       /\ \A w \in Wrappers :
             /\ "player-loaded" \in classes[w] <=> w \in Loaded
             /\ iframe[w] # "none" <=> w \in Loaded

\* C21 witness: a third player has been loaded after two others
OnePlayerAtATimeWitness ==
    /\ content # <<>>
    /\ \E u, v, w \in Wrappers :
          /\ u # v /\ v # w /\ u # w
          /\ loads[u] >= 1 /\ loads[v] >= 1 /\ w \in Loaded

\* C22: a wrapper whose player was stopped holds its cover as before the
\* load, with one click listener on the play overlay again, and does not
\* carry the player-loaded class, after any number of load/stop cycles
StoppedIsRestored ==
    content # <<>> =>
       \A w \in Wrappers :
          (loads[w] >= 1 /\ w \notin DOMAIN activeIframes)
             => /\ content[w] = [markup |-> Cover(w, TRUE), listener |-> 1]
                /\ "player-loaded" \notin classes[w]
                /\ iframe[w] = "none"

\* C22 witness: a player that was loaded and stopped twice
StoppedIsRestoredWitness ==
    /\ content # <<>>
    /\ \E w \in Wrappers :
          /\ loads[w] = 2 /\ w \notin DOMAIN activeIframes
          /\ content[w].markup = Cover(w, TRUE)

\* C23: a wrapper holds an iframe (and its embed URL has been requested) only
\* if its play overlay has been clicked; before any click there is none
NoIframeBeforeClick ==
    content # <<>> =>
       \A w \in Wrappers :
          (w \in Loaded \/ iframe[w] # "none" \/ loads[w] > 0) => w \in clicked

\* C23 witness: one overlay was clicked before the script ran and holds no
\* player, another was clicked later and its player has loaded
NoIframeBeforeClickWitness ==
    /\ content # <<>>
    /\ \E v, w \in Wrappers :
          /\ v \in clicked /\ loads[v] = 0 /\ iframe[v] = "none"
          /\ w \in clicked /\ iframe[w] = "loaded"
          /\ \E u \in Wrappers : u \notin clicked /\ iframe[u] = "none"

----------------------------------------------------------------------------
(* Properties of the playlist retry primitive and of the page loop *)

\* C24: the wait after the failed attempt number i + 1 on a URL is
\* 1000 * 2^i ms, whether the failures were 429 or others, and the first wait
\* on every page URL is 1000 ms again
BackoffDoubles ==
    (Playlist /\ pc = "backoff")
        => /\ timer = InitialDelay * Pow2(i)
           /\ delay = timer
           /\ i = 0 => timer = 1000
           /\ i = 1 => timer = 2000

\* C24 witness: on the second page URL a 429 and another failure have been
\* received, and the second wait is under way
BackoffDoublesWitness ==
    /\ Playlist /\ pc = "backoff" /\ pageCount = 1 /\ i = 1
    /\ seen = "mixed" /\ timer = 2000

\* C25: the playlist retry primitive waits a retry delay only when another
\* attempt on the URL follows, never after the last permitted attempt
WaitsOnlyBeforeRetry ==
    (Playlist /\ pc = "backoff") => i + 1 < Retries

\* C26: the error of a failure result describes the last failed attempt: the
\* HTTP status when all attempts on the URL ended in that status (429
\* included), the network error's message when all ended in a network error
FailureDescribesAttempt ==
    (Playlist /\ pc = "done" /\ Failure /\ fails = Retries)
        => /\ seen = "s429" => (outcome.error = "HTTP" /\ outcome.status = 429)
           /\ seen = "s500" => (outcome.error = "HTTP" /\ outcome.status = 500)
           /\ seen = "s404" => (outcome.error = "HTTP" /\ outcome.status = 404)
           /\ seen = "network" => outcome.error = NetworkError.message

\* C27: after a page is appended the loader waits 200 ms exactly when the
\* page carried a next-page pointer, and the loop turns to the next page only
\* after that wait
InterPageWait ==
    [][/\ (pc = "page" /\ pc' # "thrown")
            => IF url' # NoUrl
               THEN pc' = "pause" /\ timer' = InterPageDelay
               ELSE pc' = "while" /\ timer' = 0
       /\ (pc # "while" /\ pc' = "while" /\ pageCount' >= 1 /\ url' # NoUrl)
            => (pc = "pause" /\ timer = InterPageDelay)]_vars

\* C27 witness: the wait between the first and the second page is under way
InterPageWaitWitness ==
    /\ Playlist /\ pc = "pause" /\ timer = InterPageDelay
    /\ pageCount = 1 /\ url = 2

----------------------------------------------------------------------------
(* Properties of mergeTracklists *)

\* C28: the result of theJapanGrooveLibrary.js has one item per fetched item,
\* in the same order and with the same key; an item whose slug is not in the
\* table is returned as it was, and the fetched items are left as they were
MergePreservesItems ==
    (loader = "japan" /\ pc = "done" /\ Success)
        => /\ Len(outcome.cloudcasts) = Len(cloudcasts)
           /\ cloudcasts = ConcatPages(fetched)
           /\ \A k \in 1..Len(cloudcasts) :
                 /\ outcome.cloudcasts[k].key = cloudcasts[k].key
                 /\ outcome.cloudcasts[k].id = cloudcasts[k].id
                 /\ StripSlashes(cloudcasts[k].key) \notin DOMAIN manualTracklists
                       => outcome.cloudcasts[k] = cloudcasts[k]

\* C28 witness: of four items the first got the manual tracklist and the
\* third kept the sections the API gave it
MergePreservesItemsWitness ==
    /\ loader = "japan" /\ pc = "done" /\ Success
    /\ manualTracklists = TableA /\ Len(cloudcasts) = 4
    /\ outcome.cloudcasts[1].sections # cloudcasts[1].sections
    /\ outcome.cloudcasts[3] = cloudcasts[3]
    /\ cloudcasts[3].sections = ApiSections

\* C29: an item whose slug is in the table gets one 'track' section per
\* manual track, in the table's order, with that track's position, artist,
\* name and start_time (null when the track has none), in place of the
\* sections of the API
ManualSectionsCarried ==
    (loader = "japan" /\ pc = "done" /\ Success)
        => \A k \in 1..Len(cloudcasts) :
              LET slug == StripSlashes(cloudcasts[k].key)
                  sec  == outcome.cloudcasts[k].sections
              IN  slug \in DOMAIN manualTracklists
                     => /\ Len(sec) = Len(manualTracklists[slug])
                        /\ \A j \in 1..Len(sec) :
                              LET tr == manualTracklists[slug][j]
                              IN  /\ sec[j].section_type = "track"
                                  /\ sec[j].position = tr.position
                                  /\ sec[j].artist = tr.artist
                                  /\ sec[j].name = tr.track
                                  /\ sec[j].start_time =
                                        (IF tr.start_time = NoStartTime
                                         THEN Null ELSE tr.start_time)

----------------------------------------------------------------------------
(* The copies of the playlist loader *)

\* what eastonChopUp.js, and the identical text createDataFile emits, return
\* for the responses received: the error of the fetch that failed for good,
\* or the concatenation of the pages
ResultOfFetch ==
    IF fails = Retries
    THEN FailureResult(<<>>, error)
    ELSE SuccessResult(ConcatPages(fetched))

\* C30: eastonChopUp.js and theJapanGrooveLibrary.js with an empty tracklist
\* table return the same cloudcasts, count and error for the same responses
LoadersAgree ==
    (pc = "done"
        /\ (loader = "easton" \/ (loader = "japan" /\ tracklistsFile = "missing")))
        => outcome = ResultOfFetch

----------------------------------------------------------------------------
(* The loading state of lazy-player.js *)

\* C31: a wrapper that shows its cover does not carry the loading class, also
\* when it was stopped before its iframe fired load
CoverNotLoading ==
    content # <<>> =>
       \A w \in Wrappers : w \notin Loaded => "loading" \notin classes[w]

NoDupUrls(pages) ==
    \A k, l \in DOMAIN pages : pages[k].url = pages[l].url => k = l

\* C33: a navigation list with pairwise distinct urls keeps them pairwise
\* distinct; updateNavigation called for a page whose url is listed leaves
\* navigation.json as it is and writes nothing; called for a new page it
\* appends exactly one entry, at the end, and leaves the entries before it
\* and their order as they were
NavigationIdempotent ==
    [][NoDupUrls(navFile.pages) =>
         /\ NoDupUrls(navFile'.pages)
         /\ (spc = "data-written" /\ spc' = "done") =>
               LET old == navFile.pages
                   new == navFile'.pages
               IN  IF \E k \in DOMAIN old : old[k].url = PageUrl(pageSlug)
                   THEN navFile' = navFile /\ written' = written
                   ELSE /\ Len(new) = Len(old) + 1
                        /\ SubSeq(new, 1, Len(old)) = old
                        /\ new[Len(new)] = [title |-> playlistData.name,
                                            url |-> PageUrl(pageSlug)]
                        /\ written' = Append(written, "navigation")]_vars

\* a first run has appended the page to a list that had no entry, and a second
\* run for the same page has called updateNavigation again
NavigationIdempotentWitness ==
    /\ runs = 2 /\ spc = "done"
    /\ written = <<"page", "data">>
    /\ Len(navFile.pages) = 1
    /\ navFile.pages[1].url = PageUrl(pageSlug)

\* C34: an empty or non-matching URL, and a metadata request that fails,
\* answers with a status outside 2xx or with no JSON, end the run with exit
\* code 1 and nothing written; the page file, the data file and
\* navigation.json are written only in a run whose metadata request has
\* succeeded, the page file first, then the data file, then navigation.json
FailureWritesNothing ==
    [][/\ (spc = "url" /\ spc' # "url" /\ playlistUrl'.kind # "match") =>
             /\ spc' = "exited" /\ exitCode' = 1 /\ written' = <<>>
             /\ UNCHANGED <<pageFiles, dataFiles, navFile>>
       /\ (spc = "fetching" /\ spc' # "fetching" /\ response'.kind # "ok") =>
             /\ spc' = "exited" /\ exitCode' = 1 /\ written' = <<>>
             /\ UNCHANGED <<pageFiles, dataFiles, navFile>>
       /\ (spc = "exited") => UNCHANGED <<pageFiles, dataFiles, navFile>>
       /\ (\/ <<pageFiles, dataFiles, navFile>>' # <<pageFiles, dataFiles, navFile>>
           \/ Len(written') > Len(written)) =>
             /\ spc \in {"description", "page-written", "data-written"}
             /\ response.kind = "ok"
             /\ \E n \in 1..3 :
                   /\ written' = SubSeq(<<"page", "data", "navigation">>, 1, n)
                   /\ written = SubSeq(written', 1, n - 1)
                   /\ (n # 1) => pageFiles' = pageFiles
                   /\ (n # 2) => dataFiles' = dataFiles
                   /\ (n # 3) => navFile' = navFile]_vars

\* a first run has written the three outputs, and a second run whose metadata
\* request was answered with a status outside 2xx has ended with exit code 1
FailureWritesNothingWitness ==
    /\ runs = 2 /\ spc = "exited" /\ exitCode = 1
    /\ playlistUrl.kind = "match"
    /\ response.kind = "not-ok"
    /\ DOMAIN pageFiles # {} /\ DOMAIN dataFiles # {}
    /\ Len(navFile.pages) = 1 /\ navFile.pages[1].url # <<"/">>

\* C35: the name slugToCamelCase makes of a page slug contains no dash, and a
\* slug without a dash is returned as it is
CamelHasNoDash ==
    result # <<>> =>
       /\ \A k \in DOMAIN result : result[k] # Dash
       /\ (\A k \in DOMAIN arg : arg[k] # Dash) => result = arg

\* C36: the text formatDuration makes of s seconds ends with minutes m,
\* 0 <= m <= 59, preceded by hours h exactly when h > 0 (h is 0 when the text
\* has no hours), and 3600 h + 60 m <= s < 3600 h + 60 (m + 1)
DurationRendered ==
    result # <<>> =>
       LET m == result[Len(result)].n
           h == IF Len(result) = 2 THEN result[1].n ELSE 0
       IN  /\ Len(result) \in {1, 2}
           /\ result[Len(result)].unit = "m"
           /\ Len(result) = 2 => (result[1].unit = "h" /\ h > 0)
           /\ 0 <= m /\ m <= 59
           /\ 3600 * h + 60 * m <= arg
           /\ arg < 3600 * h + 60 * (m + 1)

\* a duration of two hours and some minutes has been rendered
DurationRenderedWitness ==
    /\ result # <<>>
    /\ Len(result) = 2
    /\ result[1].n = 2 /\ result[2].n >= 1
    /\ arg % 60 # 0

====
